---- MODULE Spec2Model ----
(***************************************************************************)
(* DriveBay (ParkPulse): the booking lifecycle of App.tsx over the         *)
(* Firestore collections 'listings' and 'bookings'.                        *)
(*                                                                         *)
(* The store is shared; every signed-in user has a browser session that    *)
(* holds copies of what it loaded (listings, bookings, bookingRequests).   *)
(* A handler is cut at its awaits on the store: a store read or write      *)
(* together with the synchronous code that follows it is one step.         *)
(* Time strings are sequences of character codes, so that the string       *)
(* comparisons and the parsers of the source are computed, not assumed.    *)
(***************************************************************************)
EXTENDS Integers, Sequences, FiniteSets, TLC

(***************************************************************************)
(* Bounds of the model.                                                    *)
(***************************************************************************)
MaxBookings == 2
MaxListings == 2
MaxTasks == 2
\* The longest text handed to a time-parsing helper that is run on its own.
MaxLen == 5
\* The listings of the specifications that follow one listing.
OneListing == 1
\* The bookings of the specifications that follow one booking.
OneBooking == 1

(***************************************************************************)
(* Characters and time strings.                                            *)
(***************************************************************************)
Colon == 58
Zero == 48
NaN == -9999

Digit(d) == Zero + d
IsDigit(c) == c >= Zero /\ c <= Zero + 9

\* "H:MM" (pad = FALSE, hour < 10) or "HH:MM": the text a user types for h:m.
HM(h, m, pad) ==
    LET mm == <<Digit(m \div 10), Digit(m % 10)>>
    IN  IF h < 10 /\ ~pad
        THEN <<Digit(h), Colon>> \o mm
        ELSE <<Digit(h \div 10), Digit(h % 10), Colon>> \o mm

\* JavaScript's < on strings: by code unit, a proper prefix is smaller.
RECURSIVE StrLess(_, _)
StrLess(a, b) ==
    IF b = <<>> THEN FALSE
    ELSE IF a = <<>> THEN TRUE
    ELSE IF Head(a) # Head(b) THEN Head(a) < Head(b)
    ELSE StrLess(Tail(a), Tail(b))

StrGreater(a, b) == StrLess(b, a)

AllDigits(s) == \A i \in 1..Len(s) : IsDigit(s[i])

\* Number(s) of a string of digits.
RECURSIVE DigitsValue(_)
DigitsValue(s) ==
    IF s = <<>> THEN 0
    ELSE 10 * DigitsValue(SubSeq(s, 1, Len(s) - 1)) + (s[Len(s)] - Zero)

\* The comparisons of numbers that may be NaN: false when either side is NaN.
NumLt(a, b) == a # NaN /\ b # NaN /\ a < b
NumGt(a, b) == a # NaN /\ b # NaN /\ a > b
NumGe(a, b) == a # NaN /\ b # NaN /\ a >= b
NumLe(a, b) == a # NaN /\ b # NaN /\ a <= b

\* timeToMinutes without its test of the ranges of hour and minute.
timeToMinutesUnranged(timeStr) ==
    LET n == Len(timeStr)
        matches == /\ n \in {4, 5}
                   /\ timeStr[n - 2] = Colon
                   /\ AllDigits(SubSeq(timeStr, 1, n - 3))
                   /\ AllDigits(SubSeq(timeStr, n - 1, n))
    IN  IF timeStr = <<>> \/ ~matches THEN NaN
        ELSE DigitsValue(SubSeq(timeStr, 1, n - 3)) * 60 + DigitsValue(SubSeq(timeStr, n - 1, n))

\* App.tsx timeToMinutes (ConfirmationModal.tsx holds the same text).
timeToMinutes(timeStr) ==
    LET n == Len(timeStr)
        matches == /\ n \in {4, 5}
                   /\ timeStr[n - 2] = Colon
                   /\ AllDigits(SubSeq(timeStr, 1, n - 3))
                   /\ AllDigits(SubSeq(timeStr, n - 1, n))
    IN  IF timeStr = <<>> \/ ~matches THEN NaN
        ELSE LET hours == DigitsValue(SubSeq(timeStr, 1, n - 3))
                 minutes == DigitsValue(SubSeq(timeStr, n - 1, n))
             IN  IF hours < 0 \/ hours > 23 \/ minutes < 0 \/ minutes > 59
                 THEN NaN
                 ELSE hours * 60 + minutes

\* ConfirmationModal.tsx timeToMinutes.
ModalTimeToMinutes(timeStr) ==
    LET n == Len(timeStr)
        matches == /\ n \in {4, 5}
                   /\ timeStr[n - 2] = Colon
                   /\ AllDigits(SubSeq(timeStr, 1, n - 3))
                   /\ AllDigits(SubSeq(timeStr, n - 1, n))
    IN  IF timeStr = <<>> \/ ~matches THEN NaN
        ELSE LET hours == DigitsValue(SubSeq(timeStr, 1, n - 3))
                 minutes == DigitsValue(SubSeq(timeStr, n - 1, n))
             IN  IF hours < 0 \/ hours > 23 \/ minutes < 0 \/ minutes > 59
                 THEN NaN
                 ELSE hours * 60 + minutes

\* parseInt(s, 10) on a string without sign or blanks: its leading digits.
RECURSIVE LeadingDigits(_)
LeadingDigits(s) ==
    IF s = <<>> \/ ~IsDigit(Head(s)) THEN <<>>
    ELSE <<Head(s)>> \o LeadingDigits(Tail(s))

parseInt(s) == IF LeadingDigits(s) = <<>> THEN NaN ELSE DigitsValue(LeadingDigits(s))

\* ListingForm timeToMinutes: split(':') into two parts, parseInt each, -1 if not.
FormTimeToMinutes(time) ==
    LET colons == {i \in 1..Len(time) : time[i] = Colon}
    IN  IF Cardinality(colons) # 1 THEN -1
        ELSE LET c == CHOOSE i \in colons : TRUE
                 hours == parseInt(SubSeq(time, 1, c - 1))
                 minutes == parseInt(SubSeq(time, c + 1, Len(time)))
             IN  IF hours # NaN /\ minutes # NaN THEN hours * 60 + minutes ELSE -1

(***************************************************************************)
(* Inputs the users can type, and the users.                               *)
(***************************************************************************)
Users == {"u1", "u2"}
\* A second browser session in which the account u1 is signed in as well.
SecondTab == "u1b"
Sessions == Users \cup {SecondTab}
\* currentUser.id in session s: the account signed in there.
Uid(s) == IF s = SecondTab THEN "u1" ELSE s
Dates == {"2024-09-20", "2024-09-21"}
Addresses == {"123 Main St"}
Rates == {5}
\* "9:00", "10:00", "11:00": hours written with one and with two digits.
TimeStrs == {HM(9, 0, FALSE), HM(10, 0, FALSE), HM(11, 0, FALSE)}

\* The windows a requester asks for: "9:00"-"10:00" and "10:00"-"11:00", which touch,
\* and with "9:00"-"11:00" every window over TimeStrs.
HourSlots == {<<HM(9, 0, FALSE), HM(10, 0, FALSE)>>, <<HM(10, 0, FALSE), HM(11, 0, FALSE)>>}
Slots == HourSlots \cup {<<HM(9, 0, FALSE), HM(11, 0, FALSE)>>}
\* The one window "10:00"-"11:00".
OneSlot == {<<HM(10, 0, FALSE), HM(11, 0, FALSE)>>}
\* What a requester may also type: an inverted window, an empty one, and "24:00".
TypedSlots ==
    Slots \cup {<<HM(10, 0, FALSE), HM(9, 0, FALSE)>>, <<HM(10, 0, FALSE), HM(10, 0, FALSE)>>,
                <<HM(9, 0, FALSE), HM(24, 0, FALSE)>>}
\* The requests of the walkthrough: A, "10:00"-"12:00", and B, "11:00"-"13:00".
RequestA == <<HM(10, 0, TRUE), HM(12, 0, TRUE)>>
RequestB == <<HM(11, 0, TRUE), HM(13, 0, TRUE)>>
WalkSlots == {RequestA, RequestB}
\* The users who offer a driveway.
Listers == {"u1"}

ListingIds == 1..MaxListings
BookingIds == 1..MaxBookings
Tasks == 1..MaxTasks

ActiveStatuses == {"pending", "confirmed"}
TerminalStatuses == {"denied", "canceled_by_user", "canceled_by_owner"}
Statuses == ActiveStatuses \cup TerminalStatuses

\* The account e-mail of a user (currentUser.email).
EmailOf(userId) == IF userId = "u1" THEN "u1@example.com" ELSE "u2@example.com"
\* The contact e-mail a lister types into the form.
Contacts == {"owner@example.com"}

\* What ListingForm hands to onSubmit (address stands for address, city, zipCode).
ListingInputsOn(dates, starts, ends) ==
    [address : Addresses, date : dates, startTime : starts, endTime : ends,
     rate : Rates, contactEmail : Contacts]
\* "10:0": a text that handleSubmit's parser reads as 10:00 and that the pattern of
\* the form's time fields, like the parser of the dialog, does not accept.
TenShort == <<Digit(1), Digit(0), Colon, Digit(0)>>
\* One day, every start over TimeStrs with the end "11:00" or "10:0"; the form turns
\* down "11:00"-"11:00" and the end "10:0", which leaves the windows "9:00"-"11:00"
\* and "10:00"-"11:00".
ListingInputs == ListingInputsOn({"2024-09-20"}, TimeStrs, {TenShort, HM(11, 0, FALSE)})
\* Two days, the window "9:00"-"11:00".
MovedInputs == ListingInputsOn(Dates, {HM(9, 0, FALSE)}, {HM(11, 0, FALSE)})
\* One day, the windows "9:00"-"10:00" and "10:00"-"11:00", which touch.
DayInputs ==
    {d \in ListingInputsOn({"2024-09-20"}, TimeStrs, TimeStrs) :
        <<d.startTime, d.endTime>> \in HourSlots}
\* One day, the windows "9:00"-"10:00" and "9:00"-"11:00": one holds the other.
ShrinkInputs ==
    ListingInputsOn({"2024-09-20"}, {HM(9, 0, FALSE)}, {HM(10, 0, FALSE), HM(11, 0, FALSE)})
\* One day, the window "9:00"-"11:00": "123 Main St" at the preset rate 5 and
\* "456 Oak Ave" at the preset rate 7.
PricedInputs ==
    {d \in [address : {"123 Main St", "456 Oak Ave"}, date : {"2024-09-20"},
            startTime : {HM(9, 0, FALSE)}, endTime : {HM(11, 0, FALSE)}, rate : {5, 7},
            contactEmail : Contacts] :
        d.rate = 5 <=> d.address = "123 Main St"}
\* What a lister may also type: an end at "9:00", which leaves the window empty or
\* inverted, the ends "24:00" and "10:0", and the rate 0.
TypedInputs ==
    [address : Addresses, date : {"2024-09-20"},
     startTime : {HM(9, 0, FALSE), HM(10, 0, FALSE)},
     endTime : {HM(9, 0, FALSE), HM(11, 0, FALSE), HM(24, 0, FALSE), TenShort},
     rate : Rates \cup {0}, contactEmail : Contacts]
\* The listing of the walkthrough: one day, the window "09:00"-"17:00", which its
\* owner may shorten to "09:00"-"12:00".
WalkInputs == ListingInputsOn({"2024-09-20"}, {HM(9, 0, TRUE)}, {HM(12, 0, TRUE), HM(17, 0, TRUE)})
\* One day, the windows over "09:00", "10:00", "11:00", every hour with two digits:
\* "09:00"-"10:00" and "10:00"-"11:00" touch, "09:00"-"11:00" holds both.
SpotInputs ==
    ListingInputsOn({"2024-09-20"}, {HM(9, 0, TRUE), HM(10, 0, TRUE)},
                    {HM(10, 0, TRUE), HM(11, 0, TRUE)})

\* One day, the window "9:00"-"11:00".
FixedInputs == ListingInputsOn({"2024-09-20"}, {HM(9, 0, FALSE)}, {HM(11, 0, FALSE)})

VARIABLES
    listings,       \* Firestore collection 'listings': id -> document
    bookings,       \* Firestore collection 'bookings': id -> document
    nextListingId,  \* the ids addDoc has not handed out yet
    nextBookingId,
    sListings,      \* App state 'listings' of each user's session: id -> copy
    sBookings,      \* App state 'bookings' of each user's session: id -> copy
    sRequests,      \* App state 'bookingRequests' of each user's session
    toast,          \* App state 'toast': the toast shown last, and in whose session
    task,           \* the handlers suspended at an await on the store
    mailto,         \* the recipient of the e-mail that sendEmail opened last
    args,           \* the time strings handed to the helpers that are run on their own
    results,        \* what each of these helpers returned
    isCanceling,    \* BookingCard state: the cards of each session with isCanceling set
    isDeleting,     \* BookingCard state: the cards of each session with isDeleting set
    timers,         \* the pending timeouts that call setToast(null), in the order they started
    toastTimer      \* the 3800 ms timeout of the Toast component, if it is pending

appVars == <<listings, bookings, nextListingId, nextBookingId, sListings, sBookings,
             sRequests, toast, task, mailto>>
\* The state of the booking cards and of the timeouts around the toast, which the
\* handlers of App neither read nor write.
uiVars == <<isCanceling, isDeleting, timers, toastTimer>>
vars == <<listings, bookings, nextListingId, nextBookingId, sListings, sBookings,
          sRequests, toast, task, mailto, args, results, isCanceling, isDeleting,
          timers, toastTimer>>

Idle == [op |-> "idle"]
NoToast == [user |-> "none", message |-> "none", type |-> "none"]
NoMail == "none"

Put(f, k, v) == [x \in DOMAIN f \cup {k} |-> IF x = k THEN v ELSE f[x]]
Remove(f, k) == [x \in DOMAIN f \ {k} |-> f[x]]
\* prev.map(b => b.id === id ? v : b)
MapReplace(f, k, v) == [x \in DOMAIN f |-> IF x = k THEN v ELSE f[x]]
Min(S) == CHOOSE x \in S : \A y \in S : x <= y

\* showToast(message, type): setToast. Its timeout is part of ShowToastTimed.
showToast(u, message, type) == toast' = [user |-> u, message |-> message, type |-> type]

\* A sendEmail that addresses every e-mail to the contact of the listings.
sendEmailToContact(to) == mailto' = "owner@example.com"

\* sendEmail(to, subject, htmlBody): opens the mailto link; the callers hand it a
\* required field of the form or the account's e-mail, which are not empty.
sendEmail(to) == mailto' = to

InFlight == {t \in Tasks : task[t].op # "idle"}
FreeSlot == Min(Tasks \ InFlight)
Suspend(rec) == task' = [task EXCEPT ![FreeSlot] = rec]
Finish(t) == task' = [task EXCEPT ![t] = Idle]

\* The app after construction: an empty store, nobody signed in, no toast.
Fresh ==
    /\ listings = <<>>
    /\ bookings = <<>>
    /\ nextListingId = 1
    /\ nextBookingId = 1
    /\ sListings = [u \in Sessions |-> <<>>]
    /\ sBookings = [u \in Sessions |-> <<>>]
    /\ sRequests = [u \in Sessions |-> <<>>]
    /\ toast = NoToast
    /\ task = [t \in Tasks |-> Idle]
    /\ mailto = NoMail
    /\ isCanceling = [u \in Sessions |-> {}]
    /\ isDeleting = [u \in Sessions |-> {}]
    /\ timers = <<>>
    /\ toastTimer = "none"

Init ==
    /\ Fresh
    /\ args = <<>>
    /\ results = <<>>

(***************************************************************************)
(* firestoreService: the queries.  ok tells whether getDocs answered; each *)
(* query catches its error and returns an empty list.                      *)
(***************************************************************************)
getMarketplaceListings(ok) == IF ok THEN listings ELSE <<>>
getUserBookings(userId, ok) ==
    IF ok
    THEN [b \in {x \in DOMAIN bookings : bookings[x].userId = userId} |-> bookings[b]]
    ELSE <<>>
getBookingRequestsForOwner(ownerId, ok) ==
    IF ok
    THEN [b \in {x \in DOMAIN bookings : bookings[x].ownerId = ownerId
                                         /\ bookings[x].status = "pending"} |-> bookings[b]]
    ELSE <<>>
getExistingBookingsForListing(listingId, date, ok) ==
    IF ok
    THEN [b \in {x \in DOMAIN bookings : bookings[x].listingId = listingId
                                         /\ bookings[x].date = date} |-> bookings[b]]
    ELSE <<>>
checkForExistingListing(listingData, ok) ==
    IF ok
    THEN [l \in {x \in DOMAIN listings : listings[x].address = listingData.address
                                         /\ listings[x].date = listingData.date} |-> listings[l]]
    ELSE <<>>

\* onAuthStateChanged with a signed-in user: the session loads its three lists.
Login(u, ok) ==
    /\ \A t \in InFlight : task[t].user # u
    /\ sListings' = [sListings EXCEPT ![u] = getMarketplaceListings(ok)]
    /\ sBookings' = [sBookings EXCEPT ![u] = getUserBookings(Uid(u), ok)]
    /\ sRequests' = [sRequests EXCEPT ![u] = getBookingRequestsForOwner(Uid(u), ok)]
    /\ UNCHANGED <<listings, bookings, nextListingId, nextBookingId, toast, task, mailto>>

(***************************************************************************)
(* Listings: ListingForm.handleSubmit, then addListing or updateListing.   *)
(***************************************************************************)
\* The pattern of the form's time fields, ([01]?[0-9]|2[0-3]):[0-5][0-9], which the
\* browser matches against the whole text before it lets the form submit.
TimePattern(time) ==
    LET n == Len(time)
        hourOk == \/ n = 4 /\ IsDigit(time[1])
                  \/ n = 5 /\ time[1] \in {Digit(0), Digit(1)} /\ IsDigit(time[2])
                  \/ n = 5 /\ time[1] = Digit(2) /\ time[2] \in {Digit(0), Digit(1), Digit(2), Digit(3)}
    IN  /\ n \in {4, 5}
        /\ hourOk
        /\ time[n - 2] = Colon
        /\ time[n - 1] \in {Digit(d) : d \in 0..5}
        /\ IsDigit(time[n])

\* handleSubmit's validation alone, as if the time fields had no pattern.
FormAcceptsUnmatched(data) ==
    LET startMinutes == FormTimeToMinutes(data.startTime)
        endMinutes == FormTimeToMinutes(data.endTime)
    IN  /\ data.rate > 0
        /\ ~(startMinutes = -1 \/ endMinutes = -1)
        /\ ~(startMinutes >= endMinutes)

\* What the form lets through to onSubmit: the pattern of its time fields, then
\* handleSubmit's validation of the times (the rate and the other required fields
\* are drawn valid).
FormAccepts(data) ==
    LET startMinutes == FormTimeToMinutes(data.startTime)
        endMinutes == FormTimeToMinutes(data.endTime)
    IN  /\ TimePattern(data.startTime) /\ TimePattern(data.endTime)
        /\ data.rate > 0
        /\ ~(startMinutes = -1 \/ endMinutes = -1)
        /\ ~(startMinutes >= endMinutes)

\* addListing's test on one existing listing: a comparison of the strings.
IsDuplicateOf(newListingData, existing) ==
    /\ StrLess(newListingData.startTime, existing.endTime)
    /\ StrGreater(newListingData.endTime, existing.startTime)

\* Fewer than cap listings are stored or on their way to the store.
ListingsLeft(cap) ==
    nextListingId + Cardinality({t \in InFlight : task[t].op = "addListing"}) <= cap

\* addListing up to its await on addListingToFirestore.
AddListingCheck(u, listingData, ok) ==
    /\ ListingsLeft(MaxListings)
    /\ FormAccepts(listingData)
    /\ LET newListingData == [ownerId |-> Uid(u)] @@ listingData
           potentialDuplicates == checkForExistingListing(newListingData, ok)
           isDuplicate == \E l \in DOMAIN potentialDuplicates :
                              IsDuplicateOf(newListingData, potentialDuplicates[l])
       IN  IF isDuplicate
           THEN /\ showToast(u, "A listing with this address and overlapping times already exists.", "error")
                /\ UNCHANGED task
           ELSE /\ Suspend([op |-> "addListing", user |-> u, data |-> newListingData])
                /\ UNCHANGED toast
    /\ UNCHANGED <<listings, bookings, nextListingId, nextBookingId, sListings,
                   sBookings, sRequests, mailto>>

\* addListingToFirestore settles (written: addDoc resolved); the rest of addListing.
\* generated: generateListingConfirmationEmail resolved. The catch shows the
\* failure toast over the success toast and rethrows.
AddListingWrite(t, written, generated) ==
    /\ task[t].op = "addListing"
    /\ LET u == task[t].user
           newListing == task[t].data
       IN  IF written
           THEN /\ listings' = Put(listings, nextListingId, newListing)
                /\ nextListingId' = nextListingId + 1
                /\ sListings' = [sListings EXCEPT ![u] = Put(@, nextListingId, newListing)]
                /\ IF generated
                   THEN /\ showToast(u, "Your driveway has been listed successfully!", "success")
                        /\ sendEmail(newListing.contactEmail)
                   ELSE /\ showToast(u, "Failed to list your driveway. Please try again.", "error")
                        /\ UNCHANGED mailto
           ELSE /\ showToast(u, "Failed to list your driveway. Please try again.", "error")
                /\ UNCHANGED <<listings, nextListingId, sListings, mailto>>
    /\ Finish(t)
    /\ UNCHANGED <<bookings, nextBookingId, sBookings, sRequests>>

\* updateListing's test on one booking of the fetched list: string comparisons.
IsCascadeConflict(listingData, booking) ==
    \/ listingData.date # booking.date
    \/ StrLess(booking.startTime, listingData.startTime)
    \/ StrGreater(booking.endTime, listingData.endTime)

\* The date updateListing asks getExistingBookingsForListing for.
CascadeQueryDate(listingId, listingData) == listingData.date

\* updateListing up to its first await after the fetch: the bookings to cancel.
UpdateListingScan(u, listingId, listingData, ok) ==
    /\ listingId \in DOMAIN sListings[u]
    /\ sListings[u][listingId].ownerId = Uid(u)
    /\ FormAccepts(listingData)
    /\ LET existingBookings ==
               getExistingBookingsForListing(listingId, CascadeQueryDate(listingId, listingData), ok)
           toCancel == {b \in DOMAIN existingBookings :
                           /\ IsCascadeConflict(listingData, existingBookings[b])
                           /\ existingBookings[b].status \in {"confirmed", "pending"}}
       IN  Suspend([op |-> "updateListing", user |-> u, listingId |-> listingId,
                    data |-> listingData, existing |-> existingBookings,
                    queue |-> toCancel])
    /\ UNCHANGED <<listings, bookings, nextListingId, nextBookingId, sListings,
                   sBookings, sRequests, toast, mailto>>

\* An update that the store takes only while the stored status is pending.
CanUpdatePending(bookingId) ==
    bookingId \in DOMAIN bookings /\ bookings[bookingId].status = "pending"

\* updateBookingStatusInFirestore: updateDoc fails on a document that is gone.
CanUpdateBooking(bookingId) == bookingId \in DOMAIN bookings
updateBookingStatusInFirestore(bookingId, status) ==
    bookings' = [bookings EXCEPT ![bookingId].status = status]

\* updateListing's loop after cancelBookingByOwner(b) has settled: the loop aborts.
AbortCascade(t, b) == task' = [task EXCEPT ![t] = Idle]

\* updateListing's loop after cancelBookingByOwner(b) has settled: cancelBookingByOwner
\* catches its own errors, so the loop goes on to the next booking whatever happened.
ContinueCascade(t, b) == task' = [task EXCEPT ![t].queue = @ \ {b}]

\* cancelBookingByOwner(booking), awaited by updateListing's loop. written: the
\* store took the update; generated: generateListingUpdateCancellationEmail resolved.
CancelBookingByOwner(t, written, generated) ==
    /\ task[t].op = "updateListing"
    /\ task[t].queue # {}
    /\ LET u == task[t].user
           b == Min(task[t].queue)
       IN  /\ IF written /\ CanUpdateBooking(b)
              THEN /\ updateBookingStatusInFirestore(b, "canceled_by_owner")
                   /\ sBookings' = [sBookings EXCEPT ![u] =
                          [x \in DOMAIN @ |-> IF x = b
                                              THEN [@[x] EXCEPT !.status = "canceled_by_owner"]
                                              ELSE @[x]]]
                   /\ IF generated
                      THEN /\ showToast(u, "Conflicting booking canceled.", "success")
                           /\ sendEmail(task[t].existing[b].bookerEmail)
                      ELSE /\ showToast(u, "Failed to cancel a conflicting booking.", "error")
                           /\ UNCHANGED mailto
              ELSE /\ showToast(u, "Failed to cancel a conflicting booking.", "error")
                   /\ UNCHANGED <<bookings, sBookings, mailto>>
           /\ ContinueCascade(t, b)
    /\ UNCHANGED <<listings, nextListingId, nextBookingId, sListings, sRequests>>

\* A merge that also overwrites ownerId, as if the form's data carried one.
MergeListingDisowned(l, listingData) ==
    [l EXCEPT !.address = listingData.address, !.date = listingData.date,
              !.startTime = listingData.startTime, !.endTime = listingData.endTime,
              !.rate = listingData.rate, !.contactEmail = listingData.contactEmail,
              !.ownerId = ""]

\* { ...l, ...listingData }: every field of the form, not id nor ownerId.
MergeListing(l, listingData) ==
    [l EXCEPT !.address = listingData.address, !.date = listingData.date,
              !.startTime = listingData.startTime, !.endTime = listingData.endTime,
              !.rate = listingData.rate, !.contactEmail = listingData.contactEmail]

\* updateListingInFirestore settles (written: updateDoc resolved); the rest of
\* updateListing. The catch shows the failure toast and rethrows.
UpdateListingCommit(t, written) ==
    /\ task[t].op = "updateListing"
    /\ task[t].queue = {}
    /\ LET u == task[t].user
           listingId == task[t].listingId
       IN  IF written /\ listingId \in DOMAIN listings
           THEN /\ listings' = [listings EXCEPT ![listingId] = MergeListing(@, task[t].data)]
                /\ sListings' = [sListings EXCEPT ![u] =
                       [x \in DOMAIN @ |-> IF x = listingId
                                           THEN MergeListing(@[x], task[t].data) ELSE @[x]]]
                /\ showToast(u, "Listing updated successfully!", "success")
           ELSE /\ showToast(u, "Failed to update listing. Please try again.", "error")
                /\ UNCHANGED <<listings, sListings>>
    /\ Finish(t)
    /\ UNCHANGED <<bookings, nextListingId, nextBookingId, sBookings, sRequests, mailto>>

(***************************************************************************)
(* Bookings: the request (ConfirmationModal, then requestBooking) and the  *)
(* transitions of App.tsx.                                                 *)
(***************************************************************************)
\* handleConfirmClick without its test of startMinutes >= endMinutes.
ModalAcceptsInverted(listing, selectedStartTime, selectedEndTime) ==
    LET startMinutes == timeToMinutes(selectedStartTime)
        endMinutes == timeToMinutes(selectedEndTime)
        listingStartMinutes == timeToMinutes(listing.startTime)
        listingEndMinutes == timeToMinutes(listing.endTime)
    IN  /\ ~(startMinutes = NaN \/ endMinutes = NaN)
        /\ ~(NumLt(startMinutes, listingStartMinutes) \/ NumGt(endMinutes, listingEndMinutes))

\* handleConfirmClick without its test against the listing's window.
ModalAcceptsAnywhere(listing, selectedStartTime, selectedEndTime) ==
    LET startMinutes == timeToMinutes(selectedStartTime)
        endMinutes == timeToMinutes(selectedEndTime)
    IN  /\ ~(startMinutes = NaN \/ endMinutes = NaN)
        /\ ~NumGe(startMinutes, endMinutes)

\* ConfirmationModal.handleConfirmClick: what it lets through to onConfirm.
ModalAccepts(listing, selectedStartTime, selectedEndTime) ==
    LET startMinutes == timeToMinutes(selectedStartTime)
        endMinutes == timeToMinutes(selectedEndTime)
        listingStartMinutes == timeToMinutes(listing.startTime)
        listingEndMinutes == timeToMinutes(listing.endTime)
    IN  /\ ~(startMinutes = NaN \/ endMinutes = NaN)
        /\ ~NumGe(startMinutes, endMinutes)
        /\ ~(NumLt(startMinutes, listingStartMinutes) \/ NumGt(endMinutes, listingEndMinutes))

\* requestBooking with the conflict check at request time that the source removed:
\* a request that overlaps a confirmed booking of the listing and date is refused.
RequestBookingChecked(u, listingId, startTime, endTime, written, generated) ==
    /\ listingId \in DOMAIN sListings[u]
    /\ nextBookingId <= MaxBookings
    /\ LET listing == sListings[u][listingId]
           newBooking == [listingId |-> listingId, userId |-> Uid(u),
                          bookerEmail |-> EmailOf(Uid(u)),
                          ownerId |-> listing.ownerId, ownerEmail |-> listing.contactEmail,
                          location |-> listing.address,
                          date |-> listing.date, startTime |-> startTime,
                          endTime |-> endTime, rate |-> listing.rate,
                          status |-> "pending"]
           taken == \E b \in DOMAIN bookings :
                        /\ bookings[b].listingId = listingId
                        /\ bookings[b].date = listing.date
                        /\ bookings[b].status = "confirmed"
                        /\ NumLt(timeToMinutes(startTime), timeToMinutes(bookings[b].endTime))
                        /\ NumGt(timeToMinutes(endTime), timeToMinutes(bookings[b].startTime))
       IN  /\ ModalAccepts(listing, startTime, endTime)
           /\ IF taken \/ ~written
              THEN /\ showToast(u, "Sorry, something went wrong with the booking request.", "error")
                   /\ UNCHANGED <<bookings, nextBookingId, sBookings, sRequests, mailto>>
              ELSE /\ bookings' = Put(bookings, nextBookingId, newBooking)
                   /\ nextBookingId' = nextBookingId + 1
                   /\ sBookings' = [sBookings EXCEPT ![u] = Put(@, nextBookingId, newBooking)]
                   /\ sRequests' = IF listing.ownerId = Uid(u)
                                   THEN [sRequests EXCEPT ![u] = Put(@, nextBookingId, newBooking)]
                                   ELSE sRequests
                   /\ IF generated
                      THEN /\ sendEmail(listing.contactEmail)
                           /\ showToast(u, "Request sent", "success")
                      ELSE /\ showToast(u, "Sorry, something went wrong with the booking request.", "error")
                           /\ UNCHANGED mailto
    /\ UNCHANGED <<listings, nextListingId, sListings, task>>

\* requestBooking(listing, startTime, endTime), listing a copy held by the session.
\* written: addDoc resolved; generated: generateBookingRequestEmail resolved. The
\* catch shows the failure toast and rethrows.
RequestBooking(u, listingId, startTime, endTime, written, generated) ==
    /\ listingId \in DOMAIN sListings[u]
    /\ nextBookingId <= MaxBookings
    /\ LET listing == sListings[u][listingId]
           newRequestStartMinutes == timeToMinutes(startTime)
           newRequestEndMinutes == timeToMinutes(endTime)
           newBooking == [listingId |-> listingId, userId |-> Uid(u),
                          bookerEmail |-> EmailOf(Uid(u)),
                          ownerId |-> listing.ownerId, ownerEmail |-> listing.contactEmail,
                          location |-> listing.address,
                          date |-> listing.date, startTime |-> startTime,
                          endTime |-> endTime, rate |-> listing.rate,
                          status |-> "pending"]
       IN  /\ ModalAccepts(listing, startTime, endTime)
           /\ IF newRequestStartMinutes = NaN \/ newRequestEndMinutes = NaN \/ ~written
              THEN /\ showToast(u, "Sorry, something went wrong with the booking request.", "error")
                   /\ UNCHANGED <<bookings, nextBookingId, sBookings, sRequests, mailto>>
              ELSE /\ bookings' = Put(bookings, nextBookingId, newBooking)
                   /\ nextBookingId' = nextBookingId + 1
                   /\ sBookings' = [sBookings EXCEPT ![u] = Put(@, nextBookingId, newBooking)]
                   /\ sRequests' = IF listing.ownerId = Uid(u)
                                   THEN [sRequests EXCEPT ![u] = Put(@, nextBookingId, newBooking)]
                                   ELSE sRequests
                   /\ IF generated
                      THEN /\ sendEmail(listing.contactEmail)
                           /\ showToast(u, "Request sent", "success")
                      ELSE /\ showToast(u, "Sorry, something went wrong with the booking request.", "error")
                           /\ UNCHANGED mailto
    /\ UNCHANGED <<listings, nextListingId, sListings, task>>

\* Overlaps with <= for <: windows that only touch count as overlapping.
OverlapsOrTouches(requestStartMinutes, requestEndMinutes, confirmedBooking) ==
    LET existingStartMinutes == timeToMinutes(confirmedBooking.startTime)
        existingEndMinutes == timeToMinutes(confirmedBooking.endTime)
    IN  IF existingStartMinutes = NaN \/ existingEndMinutes = NaN
        THEN FALSE
        ELSE /\ NumLe(requestStartMinutes, existingEndMinutes)
             /\ NumGe(requestEndMinutes, existingStartMinutes)

\* Overlaps that only asks whether the request lies within the confirmed window.
OverlapsWithin(requestStartMinutes, requestEndMinutes, confirmedBooking) ==
    LET existingStartMinutes == timeToMinutes(confirmedBooking.startTime)
        existingEndMinutes == timeToMinutes(confirmedBooking.endTime)
    IN  IF existingStartMinutes = NaN \/ existingEndMinutes = NaN
        THEN FALSE
        ELSE /\ NumGe(requestStartMinutes, existingStartMinutes)
             /\ NumLe(requestEndMinutes, existingEndMinutes)

\* Overlaps that only asks whether the request starts inside the confirmed window.
OverlapsStartInside(requestStartMinutes, requestEndMinutes, confirmedBooking) ==
    LET existingStartMinutes == timeToMinutes(confirmedBooking.startTime)
        existingEndMinutes == timeToMinutes(confirmedBooking.endTime)
    IN  IF existingStartMinutes = NaN \/ existingEndMinutes = NaN
        THEN FALSE
        ELSE /\ NumGe(requestStartMinutes, existingStartMinutes)
             /\ NumLt(requestStartMinutes, existingEndMinutes)

\* approveBooking's test of the request against one confirmed booking.
Overlaps(requestStartMinutes, requestEndMinutes, confirmedBooking) ==
    LET existingStartMinutes == timeToMinutes(confirmedBooking.startTime)
        existingEndMinutes == timeToMinutes(confirmedBooking.endTime)
    IN  IF existingStartMinutes = NaN \/ existingEndMinutes = NaN
        THEN FALSE
        ELSE /\ NumLt(requestStartMinutes, existingEndMinutes)
             /\ NumGt(requestEndMinutes, existingStartMinutes)

\* approveBooking's conflict check on the list it fetched.
IsConflict(booking, allBookingsForListing) ==
    LET confirmedBookings == {b \in DOMAIN allBookingsForListing :
                                 allBookingsForListing[b].status = "confirmed"}
        requestStartMinutes == timeToMinutes(booking.startTime)
        requestEndMinutes == timeToMinutes(booking.endTime)
    IN  \E b \in confirmedBookings :
            Overlaps(requestStartMinutes, requestEndMinutes, allBookingsForListing[b])

\* approveBooking(booking) up to its await on updateBookingStatusInFirestore;
\* booking is the copy shown in the session's list of pending requests.
ApproveScan(u, bookingId, ok) ==
    /\ bookingId \in DOMAIN sRequests[u]
    /\ \A t \in InFlight : ~(task[t].op = "approveBooking" /\ task[t].user = u
                             /\ task[t].id = bookingId)
    /\ LET booking == sRequests[u][bookingId]
           allBookingsForListing == getExistingBookingsForListing(booking.listingId, booking.date, ok)
       IN  IF IsConflict(booking, allBookingsForListing)
           THEN /\ showToast(u, "Approval failed: Conflicts with an existing confirmed booking.", "error")
                /\ UNCHANGED task
           ELSE /\ Suspend([op |-> "approveBooking", user |-> u, id |-> bookingId,
                            booking |-> booking])
                /\ UNCHANGED toast
    /\ UNCHANGED <<listings, bookings, nextListingId, nextBookingId, sListings,
                   sBookings, sRequests, mailto>>

\* updateBookingStatusInFirestore(booking.id, 'confirmed') settles; the rest of
\* approveBooking. written: the store took the update; generated:
\* generateBookingConfirmationEmails resolved.
ApproveWrite(t, written, generated) ==
    /\ task[t].op = "approveBooking"
    /\ LET u == task[t].user
           id == task[t].id
           updatedBooking == [task[t].booking EXCEPT !.status = "confirmed"]
       IN  IF written /\ CanUpdateBooking(id)
           THEN /\ updateBookingStatusInFirestore(id, "confirmed")
                /\ sBookings' = [sBookings EXCEPT ![u] = MapReplace(@, id, updatedBooking)]
                /\ sRequests' = [sRequests EXCEPT ![u] = Remove(@, id)]
                /\ IF generated
                   THEN /\ sendEmail(task[t].booking.bookerEmail)
                        /\ showToast(u, "Booking approved and confirmed!", "success")
                   ELSE /\ showToast(u, "Failed to approve booking.", "error")
                        /\ UNCHANGED mailto
           ELSE /\ showToast(u, "Failed to approve booking.", "error")
                /\ UNCHANGED <<bookings, sBookings, sRequests, mailto>>
    /\ Finish(t)
    /\ UNCHANGED <<listings, nextListingId, nextBookingId, sListings>>

\* denyBooking(booking), booking a copy from the session's pending requests.
DenyBooking(u, bookingId, written, generated) ==
    /\ bookingId \in DOMAIN sRequests[u]
    /\ \A t \in InFlight : ~(task[t].op = "approveBooking" /\ task[t].user = u
                             /\ task[t].id = bookingId)
    /\ LET updatedBooking == [sRequests[u][bookingId] EXCEPT !.status = "denied"]
       IN  IF written /\ CanUpdateBooking(bookingId)
           THEN /\ updateBookingStatusInFirestore(bookingId, "denied")
                /\ sBookings' = [sBookings EXCEPT ![u] = MapReplace(@, bookingId, updatedBooking)]
                /\ sRequests' = [sRequests EXCEPT ![u] = Remove(@, bookingId)]
                /\ IF generated
                   THEN /\ sendEmail(sRequests[u][bookingId].bookerEmail)
                        /\ showToast(u, "Booking request denied.", "success")
                   ELSE /\ showToast(u, "Failed to deny booking request.", "error")
                        /\ UNCHANGED mailto
           ELSE /\ showToast(u, "Failed to deny booking request.", "error")
                /\ UNCHANGED <<bookings, sBookings, sRequests, mailto>>
    /\ UNCHANGED <<listings, nextListingId, nextBookingId, sListings, task>>

\* BookingCard: canCancel and canDelete, on the copy the card shows.
canCancel(booking) == booking.status = "pending" \/ booking.status = "confirmed"
canDelete(booking) == booking.status \in {"canceled_by_user", "denied", "canceled_by_owner"}

\* cancelBookingByUser(booking), from the card of one of the session's bookings.
CancelBookingByUser(u, bookingId, written, generated) ==
    /\ bookingId \in DOMAIN sBookings[u]
    /\ canCancel(sBookings[u][bookingId])
    /\ IF written /\ CanUpdateBooking(bookingId)
       THEN /\ updateBookingStatusInFirestore(bookingId, "canceled_by_user")
            /\ sBookings' = [sBookings EXCEPT ![u][bookingId].status = "canceled_by_user"]
            /\ IF generated
               THEN /\ showToast(u, "Booking successfully canceled.", "success")
                    /\ sendEmail(sBookings[u][bookingId].ownerEmail)
               ELSE /\ showToast(u, "Failed to cancel booking. Please try again.", "error")
                    /\ UNCHANGED mailto
       ELSE /\ showToast(u, "Failed to cancel booking. Please try again.", "error")
            /\ UNCHANGED <<bookings, sBookings, mailto>>
    /\ UNCHANGED <<listings, nextListingId, nextBookingId, sListings, sRequests, task>>

\* deleteBookingFromFirestore: deleteDoc, which also succeeds on a missing document.
deleteBookingFromFirestore(bookingId) == bookings' = Remove(bookings, bookingId)

\* deleteBooking(booking.id), from the card of one of the session's bookings.
DeleteBooking(u, bookingId, written) ==
    /\ bookingId \in DOMAIN sBookings[u]
    /\ canDelete(sBookings[u][bookingId])
    /\ IF written
       THEN /\ deleteBookingFromFirestore(bookingId)
            /\ sBookings' = [sBookings EXCEPT ![u] = Remove(@, bookingId)]
            /\ showToast(u, "Booking permanently deleted.", "success")
       ELSE /\ showToast(u, "Failed to delete booking. Please try again.", "error")
            /\ UNCHANGED <<bookings, sBookings>>
    /\ UNCHANGED <<listings, nextListingId, nextBookingId, sListings, sRequests, task, mailto>>

(***************************************************************************)
(* The specifications.  A user action starts a handler; a suspended        *)
(* handler resumes when its store call resolves.                           *)
(***************************************************************************)
\* A user action may start a handler when a slot is free and, if the calls are
\* serial, when no handler is suspended.
CanStart(serial) == InFlight # Tasks /\ (serial => InFlight = {})

NextOf(serial, reads, writes, mails, inputs, slots, cap, bookingCap, sessions) ==
    \/ \E u \in sessions, ok \in reads :
           CanStart(serial) /\ Login(u, ok) /\ UNCHANGED <<args, results, uiVars>>
    \/ \E u \in Listers, d \in inputs, ok \in reads :
           CanStart(serial) /\ ListingsLeft(cap) /\ AddListingCheck(u, d, ok)
                            /\ UNCHANGED <<args, results, uiVars>>
    \/ \E u \in Listers, l \in ListingIds, d \in inputs, ok \in reads :
           CanStart(serial) /\ UpdateListingScan(u, l, d, ok) /\ UNCHANGED <<args, results, uiVars>>
    \/ \E u \in sessions, l \in ListingIds, w \in slots, written \in writes, generated \in mails :
           CanStart(serial) /\ nextBookingId <= bookingCap
                            /\ RequestBooking(u, l, w[1], w[2], written, generated)
                            /\ UNCHANGED <<args, results, uiVars>>
    \/ \E u \in sessions, b \in BookingIds, ok \in reads :
           CanStart(serial) /\ ApproveScan(u, b, ok) /\ UNCHANGED <<args, results, uiVars>>
    \/ \E u \in sessions, b \in BookingIds, written \in writes, generated \in mails :
           CanStart(serial) /\ DenyBooking(u, b, written, generated)
                            /\ UNCHANGED <<args, results, uiVars>>
    \/ \E u \in sessions, b \in BookingIds, written \in writes, generated \in mails :
           CanStart(serial) /\ CancelBookingByUser(u, b, written, generated)
                            /\ UNCHANGED <<args, results, uiVars>>
    \/ \E u \in sessions, b \in BookingIds, written \in writes :
           CanStart(serial) /\ DeleteBooking(u, b, written) /\ UNCHANGED <<args, results, uiVars>>
    \/ \E t \in Tasks, written \in writes, generated \in mails :
           AddListingWrite(t, written, generated) /\ UNCHANGED <<args, results, uiVars>>
    \/ \E t \in Tasks, written \in writes, generated \in mails :
           CancelBookingByOwner(t, written, generated) /\ UNCHANGED <<args, results, uiVars>>
    \/ \E t \in Tasks, written \in writes :
           UpdateListingCommit(t, written) /\ UNCHANGED <<args, results, uiVars>>
    \/ \E t \in Tasks, written \in writes, generated \in mails :
           ApproveWrite(t, written, generated) /\ UNCHANGED <<args, results, uiVars>>

\* The store answers every query.
Answered == {TRUE}
\* The store takes every write.
Written == {TRUE}
\* The generator of the notification e-mails answers every call.
Generated == {TRUE}
\* A call may fail.
MayFail == BOOLEAN

\* Every call runs to completion before the next one starts.
Next == NextOf(TRUE, Answered, Written, Generated, ListingInputs, Slots, OneListing, MaxBookings, Users)
Spec == Init /\ [][Next]_vars

\* The same, with listings that move between two days.
NextMoved == NextOf(TRUE, Answered, Written, Generated, MovedInputs, HourSlots, OneListing, MaxBookings, Users)
SpecMoved == Init /\ [][NextMoved]_vars

\* Calls overlap: a handler may start while others are suspended.
NextConc == NextOf(FALSE, Answered, Written, Generated, FixedInputs, HourSlots, OneListing, MaxBookings, Users)
SpecConc == Init /\ [][NextConc]_vars

\* Calls one after the other; a write to the store and a call of the generator of
\* the e-mails may fail.
NextFail == NextOf(TRUE, Answered, MayFail, MayFail, ShrinkInputs, OneSlot, OneListing, MaxBookings, Users)
SpecFail == Init /\ [][NextFail]_vars

\* The same, the generator answering: only a write to the store may fail.
NextStore == NextOf(TRUE, Answered, MayFail, Generated, ShrinkInputs, OneSlot, OneListing, MaxBookings, Users)
SpecStore == Init /\ [][NextStore]_vars

\* Calls one after the other; the requesters also type windows the dialog refuses.
NextTyped == NextOf(TRUE, Answered, Written, Generated, FixedInputs, TypedSlots, OneListing, MaxBookings, Users)
SpecTyped == Init /\ [][NextTyped]_vars

\* Calls one after the other, one booking; a listing may change its address and rate.
NextPriced == NextOf(TRUE, Answered, Written, Generated, PricedInputs, OneSlot, OneListing, OneBooking, Users)
SpecPriced == Init /\ [][NextPriced]_vars

\* Two listings of one address and day and one booking, calls one after the other.
NextDup == NextOf(TRUE, Answered, Written, Generated, DayInputs, OneSlot, MaxListings, OneBooking, Users)
SpecDup == Init /\ [][NextDup]_vars

\* Calls one after the other; the listers also type what the listing form refuses.
NextForm == NextOf(TRUE, Answered, Written, Generated, TypedInputs, OneSlot, OneListing, MaxBookings, Users)
SpecForm == Init /\ [][NextForm]_vars

\* Calls one after the other: the listing "09:00"-"17:00" and the requests A and B.
NextWalk == NextOf(TRUE, Answered, Written, Generated, WalkInputs, WalkSlots, OneListing, MaxBookings, Users)
SpecWalk == Init /\ [][NextWalk]_vars

\* Calls one after the other, one booking; the account u1 is signed in in two
\* sessions, each with its own copies of the lists.
NextTabs == NextOf(TRUE, Answered, Written, Generated, FixedInputs, OneSlot, OneListing, OneBooking, Sessions)
SpecTabs == Init /\ [][NextTabs]_vars

\* One user, who lists and books; a query of the store may fail; two listings, the
\* windows of the walkthrough and the request B.
NextRead == NextOf(TRUE, MayFail, Written, Generated, WalkInputs, {RequestB}, MaxListings, MaxBookings, Listers)
SpecRead == Init /\ [][NextRead]_vars

\* Two listings of one address and day, their hours written with two digits, and
\* one booking, calls one after the other.
NextSpot == NextOf(TRUE, Answered, Written, Generated, SpotInputs, OneSlot, MaxListings, OneBooking, Users)
SpecSpot == Init /\ [][NextSpot]_vars

\* The steps of suspended handlers that wait for the store alone: updateListing's
\* write of the listing. The other steps of suspended handlers, AddListingWrite,
\* CancelBookingByOwner and ApproveWrite, end only when the generator of the e-mails
\* has answered as well, since the handlers await it before they return.
StoreReturns ==
    \E t \in Tasks, written \in MayFail :
        UpdateListingCommit(t, written) /\ UNCHANGED <<args, results, uiVars>>

\* Calls one after the other, one booking, writes that may fail. Every call of the
\* store returns in the end; the generator of the e-mails need not answer.
NextLive == NextOf(TRUE, Answered, MayFail, Generated, ShrinkInputs, OneSlot, OneListing, OneBooking, Users)
SpecLive == Init /\ [][NextLive]_vars /\ WF_vars(StoreReturns)

(***************************************************************************)
(* The booking cards of ProfileView: the handlers of a card call the       *)
(* handlers of App and keep the card's own state.                          *)
(***************************************************************************)
\* BookingCard.handleCancel, behind the Confirm Cancel button, which the card shows
\* while canCancel holds and disables while isCanceling is set.
handleCancel(u, bookingId, written, generated) ==
    /\ bookingId \notin isCanceling[u]
    /\ isCanceling' = [isCanceling EXCEPT ![u] = @ \cup {bookingId}]
    /\ CancelBookingByUser(u, bookingId, written, generated)
    /\ UNCHANGED isDeleting

\* BookingCard.handleDelete, behind the Confirm Delete button, which the card shows
\* while canDelete holds and disables while isDeleting is set. A booking that
\* deleteBooking takes off the session's list takes its card along.
handleDelete(u, bookingId, written) ==
    /\ bookingId \notin isDeleting[u]
    /\ DeleteBooking(u, bookingId, written)
    /\ IF bookingId \in DOMAIN sBookings'[u]
       THEN /\ isDeleting' = [isDeleting EXCEPT ![u] = @ \cup {bookingId}]
            /\ UNCHANGED isCanceling
       ELSE /\ isDeleting' = [isDeleting EXCEPT ![u] = @ \ {bookingId}]
            /\ isCanceling' = [isCanceling EXCEPT ![u] = @ \ {bookingId}]

\* A sign-in, after which the session's cards are created anew.
SignIn(u) ==
    /\ Login(u, TRUE)
    /\ isCanceling' = [isCanceling EXCEPT ![u] = {}]
    /\ isDeleting' = [isDeleting EXCEPT ![u] = {}]

\* Calls one after the other: listings, requests, and the cancellations and
\* deletions that start from the cards; the store may reject the write of a card.
NextCard ==
    \/ \E u \in Users :
           CanStart(TRUE) /\ SignIn(u) /\ UNCHANGED <<args, results, timers, toastTimer>>
    \/ \E u \in Listers, d \in FixedInputs :
           CanStart(TRUE) /\ ListingsLeft(OneListing) /\ AddListingCheck(u, d, TRUE)
                          /\ UNCHANGED <<args, results, uiVars>>
    \/ \E t \in Tasks :
           AddListingWrite(t, TRUE, TRUE) /\ UNCHANGED <<args, results, uiVars>>
    \/ \E u \in Users, l \in ListingIds, w \in OneSlot :
           CanStart(TRUE) /\ RequestBooking(u, l, w[1], w[2], TRUE, TRUE)
                          /\ UNCHANGED <<args, results, uiVars>>
    \/ \E u \in Users, b \in BookingIds, written \in MayFail :
           CanStart(TRUE) /\ handleCancel(u, b, written, TRUE)
                          /\ UNCHANGED <<args, results, timers, toastTimer>>
    \/ \E u \in Users, b \in BookingIds, written \in MayFail :
           CanStart(TRUE) /\ handleDelete(u, b, written)
                          /\ UNCHANGED <<args, results, timers, toastTimer>>
SpecCard == Init /\ [][NextCard]_vars

(***************************************************************************)
(* The toast: showToast with its timeout, and the Toast component.         *)
(***************************************************************************)
\* At most MaxTimers timeouts that call setToast(null) are pending.
MaxTimers == 4
\* The toasts of updateListing.
ToastTexts ==
    {<<"Listing updated successfully!", "success">>,
     <<"Failed to update listing. Please try again.", "error">>}

\* A timeout started before the toast that is on screen was shown: it is not own
\* to that toast any more.
Disown(ts) == [i \in DOMAIN ts |-> [ts[i] EXCEPT !.own = FALSE]]
\* The first pending timeout of a kind, and the timeouts without it.
FirstOf(kind) == Min({i \in DOMAIN timers : timers[i].kind = kind})
Without(i) == [j \in 1..(Len(timers) - 1) |-> IF j < i THEN timers[j] ELSE timers[j + 1]]

\* showToast(message, type) as a whole: setToast, and a timeout of 4000 ms that
\* calls setToast(null) and that nothing clears. Toast's effect, which depends on
\* message and type, runs when the component mounts or one of them changes: it
\* clears the component's timeout and starts a new one of 3800 ms.
ShowToastTimed(u, message, type) ==
    /\ Len(timers) < MaxTimers
    /\ showToast(u, message, type)
    /\ timers' = Append(Disown(timers), [kind |-> "showToast", own |-> TRUE])
    /\ toastTimer' = IF toast = NoToast \/ toast.message # message \/ toast.type # type
                     THEN "own"
                     ELSE IF toastTimer = "none" THEN "none" ELSE "kept"

\* Toast.handleClose: setTimeout(onClose, 200), onClose being setToast(null).
handleClose(own) == timers' = Append(timers, [kind |-> "onClose", own |-> own])

\* The component's timeout of 3800 ms fires: handleClose. The timeout is own to
\* the toast on screen unless it was kept from a toast of the same message and type.
ToastTimerFires ==
    /\ toastTimer # "none"
    /\ Len(timers) < MaxTimers
    /\ handleClose(toastTimer = "own")
    /\ toastTimer' = "none"
    /\ UNCHANGED toast

\* The user clicks the toast's close button: handleClose.
ClickClose ==
    /\ toast # NoToast
    /\ Len(timers) < MaxTimers
    /\ handleClose(TRUE)
    /\ UNCHANGED <<toast, toastTimer>>

\* The first pending timeout of a kind fires: setToast(null). Without a toast the
\* Toast component is unmounted, and the cleanup of its effect clears its timeout.
TimeoutFires(kind) ==
    /\ \E i \in DOMAIN timers : timers[i].kind = kind
    /\ toast' = NoToast
    /\ timers' = Without(FirstOf(kind))
    /\ toastTimer' = "none"

\* The variables that the toast and its timeouts leave alone.
offToast == <<listings, bookings, nextListingId, nextBookingId, sListings, sBookings,
              sRequests, task, mailto, args, results, isCanceling, isDeleting>>

NextToast ==
    \/ \E u \in Listers, m \in ToastTexts : ShowToastTimed(u, m[1], m[2]) /\ UNCHANGED offToast
    \/ ToastTimerFires /\ UNCHANGED offToast
    \/ ClickClose /\ UNCHANGED offToast
    \/ \E kind \in {"showToast", "onClose"} : TimeoutFires(kind) /\ UNCHANGED offToast
SpecToast == Init /\ [][NextToast]_vars

(***************************************************************************)
(* The helpers run on their own: the texts are drawn at the start, and a    *)
(* step applies one helper to them and records what it returned.           *)
(***************************************************************************)
\* The letter a, for a character that is neither a digit nor the colon.
Letter == 97
\* The texts of at most MaxLen characters over 0, 2, 5, 6, 9, the colon and a letter:
\* among them "9:00", "09:00" and "22:59", and "25:00", "9:60", "9:0", "9:00a".
Alphabet == {Digit(0), Digit(2), Digit(5), Digit(6), Digit(9), Colon, Letter}
Texts == UNION {[1..n -> Alphabet] : n \in 0..MaxLen}

\* A helper is applied once, and what it returned is recorded under its name.
Returns(helper, value) ==
    /\ helper \notin DOMAIN results
    /\ results' = Put(results, helper, value)
    /\ UNCHANGED <<appVars, args, uiVars>>

InitParse == Fresh /\ args \in {<<s>> : s \in Texts} /\ results = <<>>
ParseInApp == Returns("App", timeToMinutes(args[1]))
ParseInDialog == Returns("ConfirmationModal", ModalTimeToMinutes(args[1]))
ParseInForm == Returns("ListingForm", FormTimeToMinutes(args[1]))
NextParse == ParseInApp \/ ParseInDialog \/ ParseInForm
SpecParse == InitParse /\ [][NextParse]_vars

\* The times of two windows: "9:00", "09:00", "10:00", "11:00", and "24:00" and
\* "10:0", which are no times of day.
WindowTexts ==
    {HM(9, 0, FALSE), HM(9, 0, TRUE), HM(10, 0, FALSE), HM(11, 0, FALSE), HM(24, 0, FALSE),
     TenShort}
\* The booking or the listing whose window is args[i], args[i + 1].
WindowAt(i) ==
    [date |-> "2024-09-20", startTime |-> args[i], endTime |-> args[i + 1],
     status |-> "confirmed"]

InitWindows ==
    Fresh /\ args \in WindowTexts \X WindowTexts \X WindowTexts \X WindowTexts
          /\ results = <<>>
\* approveBooking's scan of the first window against the second one, confirmed.
ScanFirst == Returns("scanFirst", IsConflict(WindowAt(1), <<WindowAt(3)>>))
\* approveBooking's scan of the second window against the first one, confirmed.
ScanSecond == Returns("scanSecond", IsConflict(WindowAt(3), <<WindowAt(1)>>))
\* addListing's test of the first window, new, against the second one, stored.
DuplicateTest == Returns("duplicate", IsDuplicateOf(WindowAt(1), WindowAt(3)))
\* updateListing's test of the second window, a booking, against the first one, the
\* new window of the listing.
CascadeTest == Returns("cascade", IsCascadeConflict(WindowAt(1), WindowAt(3)))
NextWindows == ScanFirst \/ ScanSecond \/ DuplicateTest \/ CascadeTest
SpecWindows == InitWindows /\ [][NextWindows]_vars

(***************************************************************************)
(* Properties.                                                             *)
(***************************************************************************)
ConflictToast == "Approval failed: Conflicts with an existing confirmed booking."

\* The windows of two stored bookings overlap, in minutes since midnight.
WindowsOverlap(a, b) ==
    /\ timeToMinutes(a.startTime) < timeToMinutes(b.endTime)
    /\ timeToMinutes(b.startTime) < timeToMinutes(a.endTime)

SameListingAndDate(a, b) == a.listingId = b.listingId /\ a.date = b.date

\* Another stored booking, confirmed, on the same listing and date, overlaps b.
StoredOverlap(b) ==
    \E o \in DOMAIN bookings \ {b} :
        /\ bookings[o].status = "confirmed"
        /\ SameListingAndDate(bookings[o], bookings[b])
        /\ WindowsOverlap(bookings[b], bookings[o])

StoredPending(b) == b \in DOMAIN bookings /\ bookings[b].status = "pending"

C2_AtMostOneOfTwoConfirmed ==
    [][\A t \in Tasks :
           ApproveWrite(t, TRUE, TRUE) =>
               \A o \in DOMAIN bookings' \ {task[t].id} :
                   (/\ task[t].id \in DOMAIN bookings'
                    /\ bookings'[o].status = "confirmed"
                    /\ SameListingAndDate(bookings'[o], task[t].booking)
                    /\ WindowsOverlap(bookings'[o], task[t].booking))
                   => bookings'[task[t].id].status # "confirmed"
      ]_vars

\* The stored status of booking b is kept by the step.
StatusKept(b) == b \in DOMAIN bookings' /\ bookings'[b].status = bookings[b].status

\* C4: the write of approveBooking changes the stored status only of a booking
\* whose stored status is pending; on any other stored status it leaves it as it is.
C4_ApproveOnlyFromPending ==
    [][\A t \in Tasks :
           (ApproveWrite(t, TRUE, TRUE) /\ task[t].id \in DOMAIN bookings) =>
               (bookings[task[t].id].status = "pending" \/ StatusKept(task[t].id))
      ]_vars

\* C5: denyBooking changes the stored status only of a booking whose stored status
\* is pending; on any other stored status it leaves it as it is.
C5_DenyOnlyFromPending ==
    [][\A u \in Users, b \in BookingIds :
           (DenyBooking(u, b, TRUE, TRUE) /\ b \in DOMAIN bookings) =>
               (bookings[b].status = "pending" \/ StatusKept(b))
      ]_vars

\* C6: cancelBookingByUser sets canceled_by_user on a stored pending or confirmed
\* booking; on a stored denied or canceled booking it changes nothing and shows an
\* error.
C6_CancelByUserRefusedOnTerminal ==
    [][\A u \in Users, b \in BookingIds :
           (CancelBookingByUser(u, b, TRUE, TRUE) /\ b \in DOMAIN bookings) =>
               IF bookings[b].status \in ActiveStatuses
               THEN bookings'[b].status = "canceled_by_user"
               ELSE StatusKept(b) /\ toast'.type = "error"
      ]_vars

\* C7: deleteBooking removes the record of a stored denied or canceled booking; on
\* a stored pending or confirmed booking it fails and the record stays.
C7_DeleteOnlyTerminal ==
    [][\A u \in Users, b \in BookingIds :
           (DeleteBooking(u, b, TRUE) /\ b \in DOMAIN bookings) =>
               IF bookings[b].status \in TerminalStatuses
               THEN b \notin DOMAIN bookings'
               ELSE b \in DOMAIN bookings' /\ toast'.type = "error"
      ]_vars

\* C8: a stored status of denied, canceled_by_user or canceled_by_owner never
\* changes: the booking keeps it or is deleted.
C8_TerminalIsSink ==
    [][\A b \in DOMAIN bookings :
           bookings[b].status \in TerminalStatuses =>
               (b \notin DOMAIN bookings' \/ bookings'[b].status = bookings[b].status)
      ]_vars

\* C9: when updateListing commits a change of the listing's date, no booking of the
\* listing on the previous date is left pending or confirmed.
C9_DateChangeCancelsActive ==
    [][\A t \in Tasks :
           (UpdateListingCommit(t, TRUE) /\ listings[task[t].listingId].date # task[t].data.date) =>
               \A b \in DOMAIN bookings' :
                   (/\ bookings'[b].listingId = task[t].listingId
                    /\ bookings'[b].date = listings[task[t].listingId].date)
                   => bookings'[b].status \notin ActiveStatuses
      ]_vars

\* The window of booking b lies within the window of listingData, as times of day.
ContainedIn(b, listingData) ==
    /\ timeToMinutes(b.startTime) >= timeToMinutes(listingData.startTime)
    /\ timeToMinutes(b.endTime) <= timeToMinutes(listingData.endTime)

\* C10: when updateListing commits a change of the listing's window on the same
\* date, each booking of the listing and date that was pending or confirmed when
\* the call read them is canceled_by_owner if and only if its window is not
\* within the new window as times of day, and otherwise keeps its status.
C10_WindowChangeCancelsExactlyOutside ==
    [][\A t \in Tasks :
           (/\ UpdateListingCommit(t, TRUE)
            /\ listings[task[t].listingId].date = task[t].data.date
            /\ <<listings[task[t].listingId].startTime, listings[task[t].listingId].endTime>>
                   # <<task[t].data.startTime, task[t].data.endTime>>) =>
               \A b \in DOMAIN task[t].existing :
                   task[t].existing[b].status \in ActiveStatuses =>
                       /\ b \in DOMAIN bookings'
                       /\ IF ContainedIn(task[t].existing[b], task[t].data)
                          THEN bookings'[b].status = task[t].existing[b].status
                          ELSE bookings'[b].status = "canceled_by_owner"
      ]_vars

\* The windows of two listings overlap, as the times of day the listing form read.
ListingWindowsOverlap(a, b) ==
    /\ FormTimeToMinutes(a.startTime) < FormTimeToMinutes(b.endTime)
    /\ FormTimeToMinutes(b.startTime) < FormTimeToMinutes(a.endTime)

\* A stored listing of the same address and date overlaps the window of listingData.
StoredDuplicate(listingData) ==
    \E l \in DOMAIN listings :
        /\ listings[l].address = listingData.address
        /\ listings[l].date = listingData.date
        /\ ListingWindowsOverlap(listingData, listings[l])

DuplicateToast == "A listing with this address and overlapping times already exists."

\* C11: addListing, the store answering: when a stored listing of the same address
\* and date overlaps the new window, the call shows the duplicate toast and starts
\* no write; when none does, the call goes on to its write, and the write stores
\* the new listing.
C11_DuplicateIffOverlap ==
    [][/\ \A u \in Listers, d \in DayInputs :
              AddListingCheck(u, d, TRUE) =>
                  IF StoredDuplicate(d)
                  THEN /\ toast' = [user |-> u, message |-> DuplicateToast, type |-> "error"]
                       /\ task' = task
                       /\ listings' = listings
                  ELSE \E t \in Tasks : /\ task'[t].op = "addListing"
                                        /\ task[t].op = "idle"
       /\ \A t \in Tasks :
              AddListingWrite(t, TRUE, TRUE) =>
                  /\ DOMAIN listings' = DOMAIN listings \cup {nextListingId}
                  /\ nextListingId \notin DOMAIN listings
                  /\ listings'[nextListingId] = task[t].data
      ]_vars

\* The step wrote to the store.
Committed == bookings' # bookings \/ listings' # listings

\* C12: a step of requestBooking, approveBooking, denyBooking, cancelBookingByUser,
\* cancelBookingByOwner or addListing that wrote its transition to the store leaves
\* no failure toast, whether or not the e-mail of the transition could be generated.
C12_CommittedNeverReportsFailure ==
    [][Committed => toast'.type # "error"]_vars

\* The step ends a call of a handler: a handler that ran in one step, or the last
\* step of a suspended one.
CallEnds ==
    \/ task' = task
    \/ \E t \in Tasks : task[t].op # "idle" /\ task'[t].op = "idle"

\* C13 (the generator answering): when a call ends with a failure toast, the store
\* is as it was when the call started: the last step wrote nothing, and after a
\* failed updateListing every booking the call fetched is stored as it was fetched.
C13_FailureLeavesStore ==
    [][(CallEnds /\ toast'.type = "error") =>
           /\ bookings' = bookings
           /\ listings' = listings
           /\ \A t \in Tasks :
                  (task[t].op = "updateListing" /\ task'[t].op = "idle") =>
                      \A b \in DOMAIN task[t].existing :
                          b \in DOMAIN bookings /\ bookings[b] = task[t].existing[b]
      ]_vars

\* The bookings the cascade of the suspended updateListing t had to cancel.
Affected(t) ==
    {b \in DOMAIN task[t].existing :
        /\ IsCascadeConflict(task[t].data, task[t].existing[b])
        /\ task[t].existing[b].status \in ActiveStatuses}

\* Those of them whose cancellation the store does not hold.
FailedCancellations(t) ==
    {b \in Affected(t) : b \notin DOMAIN bookings \/ bookings[b].status # "canceled_by_owner"}

\* C14: in updateListing, a forced cancellation that fails to persist changes no
\* booking and leaves the call suspended with the other affected bookings still
\* to be processed; the call ends only at its write of the listing, and when the
\* store takes that write after a failed cancellation the listing holds the new data.
C14_CascadeGoesOnAfterFailure ==
    [][\A t \in Tasks :
           /\ (\E generated \in BOOLEAN : CancelBookingByOwner(t, FALSE, generated)) =>
                  /\ bookings' = bookings
                  /\ task'[t] = [task[t] EXCEPT !.queue = @ \ {Min(@)}]
           /\ (task[t].op = "updateListing" /\ task'[t].op = "idle") =>
                  task[t].queue = {}
           /\ (UpdateListingCommit(t, TRUE) /\ FailedCancellations(t) # {}) =>
                  listings'[task[t].listingId] =
                      MergeListing(listings[task[t].listingId], task[t].data)
      ]_vars

\* C14 witness: updateListing has committed the window "9:00"-"10:00" although the
\* cancellation of the first booking outside it failed; the second one is canceled.
C14_Witness ==
    /\ toast.message = "Listing updated successfully!"
    /\ \E l \in DOMAIN listings, a \in DOMAIN bookings, b \in DOMAIN bookings :
           /\ a < b
           /\ listings[l].endTime = HM(10, 0, FALSE)
           /\ bookings[a].listingId = l /\ bookings[b].listingId = l
           /\ bookings[a].endTime = HM(11, 0, FALSE)
           /\ bookings[a].status \in ActiveStatuses
           /\ bookings[b].status = "canceled_by_owner"

\* C15: when updateListing commits the listing while a forced cancellation has
\* failed to persist, what it tells its caller differs from what it tells after a
\* cascade without failure.
C15_PartialSuccessIsDistinct ==
    [][\A t \in Tasks :
           (UpdateListingCommit(t, TRUE) /\ FailedCancellations(t) # {}) =>
               toast' # [user |-> task[t].user, message |-> "Listing updated successfully!",
                         type |-> "success"]
      ]_vars

\* What approveBooking shows when the store refuses its write.
StoreFailureToast == "Failed to approve booking."

\* C16: what approveBooking tells after its write was taken by the store is neither
\* what it tells on a conflict nor what it tells when the store refuses the write.
C16_ApprovalOutcomesDistinct ==
    [][\A t \in Tasks, generated \in BOOLEAN :
           (ApproveWrite(t, TRUE, generated) /\ CanUpdateBooking(task[t].id)) =>
               toast'.message \notin {ConflictToast, StoreFailureToast}
      ]_vars

\* The window of booking b: two valid times of day, the first before the second.
NonEmptyWindow(b) ==
    /\ timeToMinutes(b.startTime) # NaN
    /\ timeToMinutes(b.endTime) # NaN
    /\ timeToMinutes(b.startTime) < timeToMinutes(b.endTime)

\* C17 (the store taking the write): requestBooking with a window the dialog lets
\* through stores exactly one new booking, pending, of the requester and with the
\* requested window, whatever bookings are stored; every stored booking stays as it is.
C17_RequestAlwaysCreatesPending ==
    [][\A u \in Users, l \in ListingIds, w \in Slots :
           RequestBooking(u, l, w[1], w[2], TRUE, TRUE) =>
               /\ nextBookingId \notin DOMAIN bookings
               /\ DOMAIN bookings' = DOMAIN bookings \cup {nextBookingId}
               /\ bookings'[nextBookingId].status = "pending"
               /\ bookings'[nextBookingId].userId = u
               /\ bookings'[nextBookingId].listingId = l
               /\ bookings'[nextBookingId].startTime = w[1]
               /\ bookings'[nextBookingId].endTime = w[2]
               /\ \A b \in DOMAIN bookings : bookings'[b] = bookings[b]
      ]_vars

\* C17 witness: a request has just been stored, pending, although a confirmed
\* booking of the same listing and date overlaps it.
C17_Witness ==
    /\ toast.message = "Request sent"
    /\ nextBookingId - 1 \in DOMAIN bookings
    /\ bookings[nextBookingId - 1].status = "pending"
    /\ StoredOverlap(nextBookingId - 1)

C19_RequestWithinListingWindow ==
    [][\A u \in Users, l \in ListingIds, w \in Slots :
           RequestBooking(u, l, w[1], w[2], TRUE, TRUE) =>
               /\ timeToMinutes(w[1]) >= FormTimeToMinutes(sListings[u][l].startTime)
               /\ timeToMinutes(w[2]) <= FormTimeToMinutes(sListings[u][l].endTime)
      ]_vars

\* C19 witness: a request for "10:00"-"11:00" has been stored from the dialog of a
\* listing whose window is "10:00"-"11:00"; the other two windows a requester may
\* type, "9:00"-"10:00" and "9:00"-"11:00", start before it.
C19_Witness ==
    /\ toast.message = "Request sent"
    /\ toast.user \in Users
    /\ nextBookingId - 1 \in DOMAIN bookings
    /\ LET b == bookings[nextBookingId - 1]
       IN  /\ b.listingId \in DOMAIN sListings[toast.user]
           /\ sListings[toast.user][b.listingId].startTime = HM(10, 0, FALSE)
           /\ b.startTime = HM(10, 0, FALSE)
           /\ b.endTime = HM(11, 0, FALSE)

\* C20: the rate and the location of a new booking are those of the stored listing
\* when the request is made, and no step changes the rate or the location of a
\* stored booking.
C20_RateAndLocationAreSnapshots ==
    [][/\ \A u \in Users, l \in ListingIds, w \in OneSlot :
              RequestBooking(u, l, w[1], w[2], TRUE, TRUE) =>
                  /\ bookings'[nextBookingId].rate = listings[l].rate
                  /\ bookings'[nextBookingId].location = listings[l].address
       /\ \A b \in DOMAIN bookings \cap DOMAIN bookings' :
              /\ bookings'[b].rate = bookings[b].rate
              /\ bookings'[b].location = bookings[b].location
      ]_vars

\* The times of day: "H:MM" or "HH:MM", hour 0..23 and minute 0..59.
ClockTimes == {HM(n \div 60, n % 60, pad) : n \in 0..1439, pad \in BOOLEAN}
\* The minutes since midnight of a time of day: its digits before the colon are
\* the hour, the two after it the minute.
ClockMinutes(s) ==
    60 * DigitsValue(SubSeq(s, 1, Len(s) - 3)) + DigitsValue(SubSeq(s, Len(s) - 1, Len(s)))

\* A listing with two times of day, the first before the second, and a rate above 0.
ValidListing(l) ==
    /\ l.startTime \in ClockTimes
    /\ l.endTime \in ClockTimes
    /\ ClockMinutes(l.startTime) < ClockMinutes(l.endTime)
    /\ l.rate > 0

\* C21: every stored listing, after addListing and after updateListing, has a
\* start and an end that are times of day (hour 0..23, minute 0..59), the start
\* before the end, and a rate above zero.
C21_StoredListingsValid ==
    \A l \in DOMAIN listings : ValidListing(listings[l])

\* C21 witness: a listing stored by addListing has been changed by updateListing to
\* the window "10:00"-"11:00", while the lister could also type an empty or inverted
\* window, the ends "24:00" and "10:0", and the rate 0.
C21_Witness ==
    /\ toast.message = "Listing updated successfully!"
    /\ \E l \in DOMAIN listings :
           listings[l].startTime = HM(10, 0, FALSE) /\ listings[l].endTime = HM(11, 0, FALSE)

\* The stored booking b has the window w.
StoredWindow(b, w) == b \in DOMAIN bookings /\ <<bookings[b].startTime, bookings[b].endTime>> = w

\* A booking with the window of request A is stored as confirmed.
AConfirmed == \E a \in DOMAIN bookings : StoredWindow(a, RequestA) /\ bookings[a].status = "confirmed"

\* The step leaves every stored booking but b as it is.
OthersKept(b) == \A o \in DOMAIN bookings \ {b} : o \in DOMAIN bookings' /\ bookings'[o] = bookings[o]

\* C22: on the listing "09:00"-"17:00", calls one after the other: a request for A
\* or B is stored as pending; approving A while nothing is confirmed goes on to its
\* write, which stores confirmed; approving B while A is confirmed is refused with
\* the conflict toast and B stays pending; denying the pending B stores denied;
\* deleting the denied B removes its record; and each step keeps the other bookings.
C22_WalkthroughRuns ==
    [][/\ \A u \in Users, l \in ListingIds, w \in WalkSlots :
              RequestBooking(u, l, w[1], w[2], TRUE, TRUE) =>
                  /\ <<bookings'[nextBookingId].startTime, bookings'[nextBookingId].endTime>> = w
                  /\ bookings'[nextBookingId].status = "pending"
                  /\ OthersKept(nextBookingId)
       /\ \A u \in Users, b \in BookingIds :
              (ApproveScan(u, b, TRUE) /\ StoredPending(b) /\ StoredWindow(b, RequestA)
                   /\ \A o \in DOMAIN bookings : bookings[o].status # "confirmed") =>
                  \E t \in Tasks : task[t].op = "idle" /\ task'[t].op = "approveBooking"
                                    /\ task'[t].id = b
       /\ \A t \in Tasks :
              (ApproveWrite(t, TRUE, TRUE) /\ StoredPending(task[t].id)
                   /\ StoredWindow(task[t].id, RequestA)) =>
                  /\ bookings'[task[t].id].status = "confirmed"
                  /\ OthersKept(task[t].id)
       /\ \A u \in Users, b \in BookingIds :
              (ApproveScan(u, b, TRUE) /\ StoredPending(b) /\ StoredWindow(b, RequestB)
                   /\ AConfirmed) =>
                  /\ toast' = [user |-> u, message |-> ConflictToast, type |-> "error"]
                  /\ task' = task
                  /\ bookings' = bookings
       /\ \A u \in Users, b \in BookingIds :
              (DenyBooking(u, b, TRUE, TRUE) /\ StoredPending(b) /\ StoredWindow(b, RequestB)) =>
                  /\ bookings'[b].status = "denied"
                  /\ OthersKept(b)
       /\ \A u \in Users, b \in BookingIds :
              (DeleteBooking(u, b, TRUE) /\ StoredWindow(b, RequestB)
                   /\ bookings[b].status = "denied") =>
                  /\ b \notin DOMAIN bookings'
                  /\ OthersKept(b)
      ]_vars

\* C22 witness: the end of the walkthrough: A is stored as confirmed, the second
\* booking has been deleted, and the store holds nothing else.
C22_Witness ==
    /\ toast.message = "Booking permanently deleted."
    /\ nextBookingId = 3
    /\ DOMAIN bookings = {1}
    /\ StoredWindow(1, RequestA)
    /\ bookings[1].status = "confirmed"
    /\ \A l \in DOMAIN listings : listings[l].endTime = HM(17, 0, TRUE)

\* An approveBooking call on booking b is suspended between its scan and its write.
ApprovalInFlight(b) == \E t \in Tasks : task[t].op = "approveBooking" /\ task[t].id = b

\* C23 (calls overlapping): cancelBookingByUser on a stored booking, also while an
\* approval of it is suspended, stores canceled_by_user and shows its success toast;
\* the write of approveBooking on a stored booking, also one canceled since the
\* scan, stores confirmed and shows its success toast: the status written last stays
\* and neither call is told of a failure.
C23_LastWriteWinsBothSucceed ==
    [][/\ \A u \in Users, b \in BookingIds :
              (CancelBookingByUser(u, b, TRUE, TRUE) /\ b \in DOMAIN bookings) =>
                  /\ bookings'[b].status = "canceled_by_user"
                  /\ toast' = [user |-> u, message |-> "Booking successfully canceled.",
                               type |-> "success"]
                  /\ task' = task
       /\ \A t \in Tasks :
              (ApproveWrite(t, TRUE, TRUE) /\ task[t].id \in DOMAIN bookings) =>
                  /\ bookings'[task[t].id].status = "confirmed"
                  /\ toast' = [user |-> task[t].user, message |-> "Booking approved and confirmed!",
                               type |-> "success"]
      ]_vars

\* C23 witness: while the approval of a booking was suspended its booker canceled
\* it: the booker's session shows canceled_by_user under the success toast of the
\* cancellation, and the approval, still suspended, has its write to come.
C23_Witness ==
    \E b \in DOMAIN bookings :
        /\ ApprovalInFlight(b)
        /\ bookings[b].status = "canceled_by_user"
        /\ toast = [user |-> bookings[b].userId, message |-> "Booking successfully canceled.",
                    type |-> "success"]

\* C24: when every call of the store returns, whether or not the generator of the
\* e-mails ever answers, a suspended updateListing or approveBooking ends in the end:
\* the listing is written or the failure shown, the outcome of the approval shown.
C24_HandlersEndWithoutNotifier ==
    \A t \in Tasks :
        (task[t].op \in {"updateListing", "approveBooking"}) ~> (task[t].op = "idle")

\* What a helper returns for a text it does not take for a time: NaN, and -1 in
\* the listing form.
InvalidMarker(helper) == IF helper = "ListingForm" THEN -1 ELSE NaN

\* C25: each of the three helpers returns the minutes since midnight of a text that
\* is a time of day ("H:MM" or "HH:MM", hour 0..23, minute 0..59) and its invalid
\* marker for every other text, so that the three take the same texts for times.
C25_HelpersAgreeOnTimesOfDay ==
    \A helper \in DOMAIN results :
        results[helper] = IF args[1] \in ClockTimes THEN ClockMinutes(args[1])
                                                     ELSE InvalidMarker(helper)

\* The window args[i], args[i + 1] is one a form accepts: two times of day, the
\* first before the second.
AcceptedWindow(i) ==
    /\ args[i] \in ClockTimes
    /\ args[i + 1] \in ClockTimes
    /\ ClockMinutes(args[i]) < ClockMinutes(args[i + 1])

\* The windows at i and j overlap, as minutes since midnight.
ClockOverlap(i, j) ==
    /\ ClockMinutes(args[i]) < ClockMinutes(args[j + 1])
    /\ ClockMinutes(args[i + 1]) > ClockMinutes(args[j])

\* C26: on two windows the forms accept, addListing's test for a duplicate says
\* what the overlap of the windows in minutes since midnight says, and so what
\* approveBooking's scan says; updateListing's test says that the booking is not
\* within the new window in minutes since midnight.
C26_StringTestsAgreeWithMinutes ==
    (AcceptedWindow(1) /\ AcceptedWindow(3)) =>
        /\ "duplicate" \in DOMAIN results => results["duplicate"] = ClockOverlap(1, 3)
        /\ {"duplicate", "scanFirst"} \subseteq DOMAIN results =>
               results["duplicate"] = results["scanFirst"]
        /\ "cascade" \in DOMAIN results =>
               results["cascade"] = (\/ ClockMinutes(args[3]) < ClockMinutes(args[1])
                                     \/ ClockMinutes(args[4]) > ClockMinutes(args[2]))

\* C27: when one of the four times of approveBooking's scan, those of the booking
\* to approve or those of the confirmed booking, is not a time of day, the scan of
\* the pair finds no conflict.
C27_UnparsableNeverConflicts ==
    (\E i \in 1..4 : args[i] \notin ClockTimes) =>
        /\ "scanFirst" \in DOMAIN results => results["scanFirst"] = FALSE
        /\ "scanSecond" \in DOMAIN results => results["scanSecond"] = FALSE

\* C27 witness: the scan has run in both directions on "9:00"-"24:00" and
\* "10:00"-"11:00", which would overlap were "24:00" read as a time.
C27_Witness ==
    /\ args = <<HM(9, 0, FALSE), HM(24, 0, FALSE), HM(10, 0, FALSE), HM(11, 0, FALSE)>>
    /\ {"scanFirst", "scanSecond"} \subseteq DOMAIN results

\* C29: on two valid windows, approveBooking's scan of the first against the second,
\* confirmed, finds a conflict exactly when its scan of the second against the
\* first, confirmed, does.
C29_ScanIsSymmetric ==
    (AcceptedWindow(1) /\ AcceptedWindow(3) /\ {"scanFirst", "scanSecond"} \subseteq DOMAIN results) =>
        results["scanFirst"] = results["scanSecond"]

\* C29 witness: both scans have run on "9:00"-"11:00" and "10:00"-"11:00", of which
\* only the second starts inside the other, and both found the conflict.
C29_Witness ==
    /\ args = <<HM(9, 0, FALSE), HM(11, 0, FALSE), HM(10, 0, FALSE), HM(11, 0, FALSE)>>
    /\ {"scanFirst", "scanSecond"} \subseteq DOMAIN results
    /\ results["scanFirst"] /\ results["scanSecond"]

\* One of the windows of the bookings a and b ends at the minute the other starts.
Touch(a, b) ==
    \/ ClockMinutes(a.endTime) = ClockMinutes(b.startTime)
    \/ ClockMinutes(b.endTime) = ClockMinutes(a.startTime)

\* A stored confirmed booking of the listing and date of the stored booking b
\* touches it, and none overlaps it.
TouchedOnly(b) ==
    /\ \E o \in DOMAIN bookings \ {b} :
           /\ bookings[o].status = "confirmed"
           /\ SameListingAndDate(bookings[o], bookings[b])
           /\ Touch(bookings[o], bookings[b])
    /\ ~StoredOverlap(b)

\* C28 (calls one after the other): approveBooking on a stored pending booking
\* that a confirmed booking of the same listing and date touches, before or after
\* it, and none overlaps, is not refused: the scan goes on to the write without a
\* toast, and the write stores confirmed under the success toast.
C28_TouchingIsNoConflict ==
    [][/\ \A u \in Users, b \in BookingIds :
              (ApproveScan(u, b, TRUE) /\ StoredPending(b) /\ TouchedOnly(b)) =>
                  /\ toast' = toast
                  /\ \E t \in Tasks : task[t].op = "idle" /\ task'[t].op = "approveBooking"
                                        /\ task'[t].id = b
       /\ \A t \in Tasks :
              (ApproveWrite(t, TRUE, TRUE) /\ StoredPending(task[t].id) /\ TouchedOnly(task[t].id)) =>
                  /\ bookings'[task[t].id].status = "confirmed"
                  /\ toast'.message = "Booking approved and confirmed!"
      ]_vars

\* C28 witness: "9:00"-"10:00" has just been approved although "10:00"-"11:00", which
\* starts at the minute it ends and was requested before it, is confirmed.
C28_Witness ==
    /\ toast.message = "Booking approved and confirmed!"
    /\ DOMAIN bookings = {1, 2}
    /\ <<bookings[1].startTime, bookings[1].endTime>> = <<HM(10, 0, FALSE), HM(11, 0, FALSE)>>
    /\ <<bookings[2].startTime, bookings[2].endTime>> = <<HM(9, 0, FALSE), HM(10, 0, FALSE)>>
    /\ SameListingAndDate(bookings[1], bookings[2])
    /\ bookings[1].status = "confirmed" /\ bookings[2].status = "confirmed"
    /\ \E u \in Users : 1 \notin DOMAIN sRequests[u] /\ 2 \notin DOMAIN sRequests[u]
                         /\ 1 \in DOMAIN sBookings[u] /\ 2 \in DOMAIN sBookings[u]

\* C30: approveBooking's scan on a stored booking that no other confirmed booking
\* of its listing and date overlaps goes on to the write, whatever the stored status
\* of the booking itself is: the booking is not taken for a conflict with itself.
C30_ScanSkipsTheBookingItself ==
    [][\A u \in Sessions, b \in BookingIds :
           (ApproveScan(u, b, TRUE) /\ b \in DOMAIN bookings /\ ~StoredOverlap(b)) =>
               \E t \in Tasks : /\ task[t].op = "idle"
                                 /\ task'[t].op = "approveBooking"
                                 /\ task'[t].id = b
      ]_vars

\* C31: no step changes the id or the ownerId of a stored listing: a listing that
\* is stored stays stored under its id with the ownerId it has, whatever
\* updateListing writes, and a listing that addListing stores gets the uid of the
\* user who called addListing.
C31_OwnerAndIdKept ==
    [][/\ \A l \in DOMAIN listings :
              /\ l \in DOMAIN listings'
              /\ listings'[l].ownerId = listings[l].ownerId
       /\ \A t \in Tasks :
              AddListingWrite(t, TRUE, TRUE) =>
                  /\ DOMAIN listings' = DOMAIN listings \cup {nextListingId}
                  /\ listings'[nextListingId].ownerId = Uid(task[t].user)
       /\ \A t \in Tasks :
              UpdateListingCommit(t, TRUE) =>
                  /\ DOMAIN listings' = DOMAIN listings
                  /\ \A u \in Users : \A l \in DOMAIN sListings[u] :
                         sListings'[u][l].ownerId = sListings[u][l].ownerId
      ]_vars

\* C31 witness: the listing that u1 added at "123 Main St" has just been updated to
\* "456 Oak Ave" at another rate, and is stored under its id with the owner u1.
C31_Witness ==
    /\ toast.message = "Listing updated successfully!"
    /\ DOMAIN listings = {1}
    /\ listings[1].address = "456 Oak Ave"
    /\ listings[1].rate = 7
    /\ listings[1].ownerId = "u1"
    /\ \E b \in DOMAIN bookings : bookings[b].location = "123 Main St"

\* The requester of the stored booking b: the account that asked for it.
RequesterOf(b) == EmailOf(bookings[b].userId)
\* The owner's address for the stored booking b: the contact of its listing.
OwnerOf(b) == listings[bookings[b].listingId].contactEmail

\* The step stores the booking b with a status it did not have, and the address
\* that is to hear of it is party.
Notifies(b, party) ==
    /\ b \in DOMAIN bookings'
    /\ b \in DOMAIN bookings => bookings'[b].status # bookings[b].status
    /\ party = CASE bookings'[b].status = "pending" -> listings[bookings'[b].listingId].contactEmail
                 [] bookings'[b].status \in {"confirmed", "denied", "canceled_by_owner"} ->
                        EmailOf(bookings'[b].userId)
                 [] bookings'[b].status = "canceled_by_user" ->
                        listings[bookings'[b].listingId].contactEmail

C33_FailedScanStopsTheOperation ==
    [][/\ \A u \in Listers, b \in BookingIds :
              (ApproveScan(u, b, FALSE) /\ ~ApproveScan(u, b, TRUE)) => task' = task
       /\ \A u \in Listers, d \in WalkInputs :
              (AddListingCheck(u, d, FALSE) /\ ~AddListingCheck(u, d, TRUE)) => task' = task
       /\ \A u \in Listers, l \in ListingIds, d \in WalkInputs :
              (UpdateListingScan(u, l, d, FALSE) /\ ~UpdateListingScan(u, l, d, TRUE)) =>
                  task' = task
      ]_vars

\* C34 (calls one after the other, the store answering, hours written with two
\* digits): no two stored listings of the same address and date have windows that
\* overlap as times of day.
C34_NoOverlappingListings ==
    \A a, b \in DOMAIN listings :
        (a # b /\ listings[a].address = listings[b].address
               /\ listings[a].date = listings[b].date) =>
            ~ListingWindowsOverlap(listings[a], listings[b])

\* C35 (calls one after the other): when a session's approveBooking or denyBooking
\* has stored the new status of a booking, and when the cascade of a session's
\* updateListing has stored canceled_by_owner on a booking that was pending, the
\* booking is not in that session's list of pending requests afterwards.
C35_RequestListDropsMovedBookings ==
    [][/\ \A t \in Tasks :
              (ApproveWrite(t, TRUE, TRUE) /\ bookings' # bookings) =>
                  task[t].id \notin DOMAIN sRequests'[task[t].user]
       /\ \A u \in Users, b \in BookingIds :
              (DenyBooking(u, b, TRUE, TRUE) /\ bookings' # bookings) =>
                  b \notin DOMAIN sRequests'[u]
       /\ \A t \in Tasks :
              (CancelBookingByOwner(t, TRUE, TRUE) /\ StoredPending(Min(task[t].queue))) =>
                  Min(task[t].queue) \notin DOMAIN sRequests'[task[t].user]
      ]_vars

\* The step leaves every listing as it is stored, and every booking but b: it
\* stores no new booking and neither changes nor removes another one.
OnlyBookingTouched(b) ==
    /\ listings' = listings
    /\ DOMAIN bookings' \subseteq DOMAIN bookings
    /\ \A o \in DOMAIN bookings \ {b} : o \in DOMAIN bookings' /\ bookings'[o] = bookings[o]

\* C36 (calls that overlap): approveBooking, denyBooking, cancelBookingByUser
\* and deleteBooking leave every listing and every booking but
\* the one they are called on as stored. A cancellation of updateListing's cascade
\* leaves every listing and every other booking as stored, and the booking it
\* changes is a pending or confirmed booking of the listing that is updated;
\* updateListing's write leaves every booking and every other listing as stored.
C36_OnlyTheTargetChanges ==
    [][/\ \A t \in Tasks :
              ApproveWrite(t, TRUE, TRUE) => OnlyBookingTouched(task[t].id)
       /\ \A u \in Users, b \in BookingIds :
              /\ DenyBooking(u, b, TRUE, TRUE) => OnlyBookingTouched(b)
              /\ CancelBookingByUser(u, b, TRUE, TRUE) => OnlyBookingTouched(b)
              /\ DeleteBooking(u, b, TRUE) => OnlyBookingTouched(b)
       /\ \A t \in Tasks :
              CancelBookingByOwner(t, TRUE, TRUE) =>
                  /\ OnlyBookingTouched(Min(task[t].queue))
                  /\ bookings' # bookings =>
                         /\ bookings[Min(task[t].queue)].listingId = task[t].listingId
                         /\ bookings[Min(task[t].queue)].status \in ActiveStatuses
       /\ \A t \in Tasks :
              UpdateListingCommit(t, TRUE) =>
                  /\ bookings' = bookings
                  /\ DOMAIN listings' = DOMAIN listings
                  /\ \A l \in DOMAIN listings \ {task[t].listingId} : listings'[l] = listings[l]
      ]_vars

\* C37 (calls one after the other): when the store rejects the write of a
\* cancellation or of a deletion that started from a booking card, so that the
\* booking is stored as before, the button of the card that started it is enabled
\* again once the call has returned.
C37_CardCanRetry ==
    [][\A u \in Users, b \in BookingIds :
           /\ (handleCancel(u, b, FALSE, TRUE) /\ bookings' = bookings) =>
                  b \notin isCanceling'[u]
           /\ (handleDelete(u, b, FALSE) /\ bookings' = bookings) =>
                  b \notin isDeleting'[u]
      ]_vars

\* C38: a timeout that clears a toast is own to it: it was started by the
\* showToast call that showed this toast, by the Toast component for it, or by a
\* click on its close button.
C38_ToastClearedByItsOwnTimer ==
    [][\A kind \in {"showToast", "onClose"} :
           (TimeoutFires(kind) /\ toast # NoToast) => timers[FirstOf(kind)].own
      ]_vars

====
